---- MODULE Spec2Model ----
(***************************************************************************)
(* Model of src/src/logic.rs: the Maze of maze-gen.  A Maze is a spanning  *)
(* tree over a width x height grid, kept as one parent pointer per cell    *)
(* (tiles) and one flag per interior wall (horz_walls, vert_walls).        *)
(* Maze::step re-roots the tree by moving the root (origin) one cell;      *)
(* Maze::init repeats step width*height*10 times.                          *)
(*                                                                         *)
(* A Vec of length n is a function with domain 0..n-1, so that the index   *)
(* arithmetic of the source is kept as written.  A pair (a, b) is the      *)
(* tuple <<a, b>>: p[1] is p.0 and p[2] is p.1.                            *)
(***************************************************************************)
EXTENDS Integers, FiniteSets, Sequences, TLC

\* ------------------------------------------------------------------ bounds
\* Largest width / height passed to Maze::new, and largest number of cells.
MaxWidth == 3
MaxHeight == 3
MaxCells == 9
\* Maze::init is only called on grids of at most this many cells (it runs
\* width*height*10 steps, which multiplies the state space).
MaxInitCells == 4

\* ------------------------------------------------------------------- types
\* enum Dir
Dir == {"Up", "Down", "Left", "Right"}

\* Option::None, for a tile (the root) and for a rejected new_origin.
None == "None"

\* Result of index arithmetic that underflowed a u32 (x - 1 or y - 1 at 0).
\* A debug build panics at the subtraction; a release build wraps to a
\* value of at least 2^32 - width, which is past the end of every Vec the
\* maze owns, so the indexing panics.  Either way the index is out of bounds.
Underflow == -1

VARIABLES
    width,       \* Maze.width  (the argument of Maze::new)
    height,      \* Maze.height (the argument of Maze::new)
    origin,      \* Maze.origin
    tiles,       \* Maze.tiles: Vec<Option<Dir>>
    horz_walls,  \* Maze.horz_walls: Vec<bool>
    vert_walls,  \* Maze.vert_walls: Vec<bool>
    pc,          \* where the program is
    caller,      \* who called step: "main" or "init"
    direction,   \* step's local `direction`: the last draw, "unset" before
    i,           \* init's loop counter: iterations of `for _ in 0..n` done
    moves,       \* root moves completed by the running init
    rendered     \* the last result of to_str and the `dirs` it was called with

maze == <<width, height, origin, tiles, horz_walls, vert_walls>>
vars == <<width, height, origin, tiles, horz_walls, vert_walls,
          pc, caller, direction, i, moves, rendered>>

\* No String is held: to_str has not been called since the last call that
\* mutates the maze.
NoText == [dirs |-> FALSE, text |-> <<>>]

\* vec![v; n]
VecOf(n, v) == [k \in 0..(n - 1) |-> v]

\* ------------------------------------------------------------- Maze::new
\* tiles after the chunks_exact_mut(width) pass: row[0] of chunk 0 is None,
\* row[0] of every other chunk is Some(Up), the rest stays Some(Left).
NewTiles(w, h) ==
    [k \in 0..(w * h - 1) |->
        IF k % w = 0 THEN (IF k \div w = 0 THEN None ELSE "Up") ELSE "Left"]

\* NewHorzWalls without the pass of lines 49-51: every wall stays closed.
NewHorzWalls_AllClosed(w, h) == [k \in 0..(w * (h - 1) - 1) |-> TRUE]

\* horz_walls: vec![true; w*(h-1)] with row[0] of every chunk set to false.
NewHorzWalls(w, h) ==
    [k \in 0..(w * (h - 1) - 1) |-> IF k % w = 0 THEN FALSE ELSE TRUE]

\* vert_walls: vec![false; (w-1)*h]
NewVertWalls(w, h) == VecOf((w - 1) * h, FALSE)

\* What Maze::new(w, h) can end in.
\*   w = 0: chunks_exact_mut(0) panics (chunk size must be non-zero).
\*   w >= 1, h = 0: `height - 1` underflows a u32.  A debug build panics; a
\*     release build wraps, asks for a Vec of 2^32 - w bools and either
\*     aborts on allocation failure or returns a Maze of height 0.
\*   otherwise: the comb is returned.
NewOutcomes(w, h) ==
    IF w = 0 THEN {"panicked"}
    ELSE IF h = 0 THEN {"panicked", "aborted", "wrapped"}
    ELSE {"idle"}

New(w, h) ==
    /\ pc = "start"
    /\ width' = w
    /\ height' = h
    /\ origin' = <<0, 0>>
    /\ \E out \in NewOutcomes(w, h) :
          /\ pc' = out
          /\ IF out = "idle"
                THEN /\ tiles' = NewTiles(w, h)
                     /\ horz_walls' = NewHorzWalls(w, h)
                     /\ vert_walls' = NewVertWalls(w, h)
                ELSE UNCHANGED <<tiles, horz_walls, vert_walls>>
    /\ UNCHANGED <<caller, direction, i, moves, rendered>>

\* ------------------------------------------------------------ Maze::step
\* NewOrigin with the Right guard off by one (origin.0 == width): a root in
\* the last column may move right, out of the grid.
NewOrigin_RightOffByOne(o, d, w, h) ==
    CASE d = "Left"  -> IF o[1] = 0 THEN None ELSE <<o[1] - 1, o[2]>>
      [] d = "Up"    -> IF o[2] = 0 THEN None ELSE <<o[1], o[2] - 1>>
      [] d = "Right" -> IF o[1] = w THEN None ELSE <<o[1] + 1, o[2]>>
      [] d = "Down"  -> IF o[2] + 1 = h THEN None ELSE <<o[1], o[2] + 1>>

\* NewOrigin with the Left guard written origin.0 >= 0, which holds of every
\* u32: Left is always rejected.
NewOrigin_LeftNever(o, d, w, h) ==
    CASE d = "Left"  -> IF o[1] >= 0 THEN None ELSE <<o[1] - 1, o[2]>>
      [] d = "Up"    -> IF o[2] = 0 THEN None ELSE <<o[1], o[2] - 1>>
      [] d = "Right" -> IF o[1] + 1 = w THEN None ELSE <<o[1] + 1, o[2]>>
      [] d = "Down"  -> IF o[2] + 1 = h THEN None ELSE <<o[1], o[2] + 1>>

\* The match of lines 68-77: the cell the draw points at, None when it is
\* outside the grid.
NewOrigin(o, d, w, h) ==
    CASE d = "Left"  -> IF o[1] = 0 THEN None ELSE <<o[1] - 1, o[2]>>
      [] d = "Up"    -> IF o[2] = 0 THEN None ELSE <<o[1], o[2] - 1>>
      [] d = "Right" -> IF o[1] + 1 = w THEN None ELSE <<o[1] + 1, o[2]>>
      [] d = "Down"  -> IF o[2] + 1 = h THEN None ELSE <<o[1], o[2] + 1>>

\* OpenedWall with the Up arm indexing by old_origin (line 90 written as
\* line 93): the wall below the old root is opened instead of the one above.
OpenedWall_UpOld(d, old, new, w) ==
    CASE d = "Up"    -> [arr |-> "horz", idx |-> old[1] + old[2] * w]
      [] d = "Down"  -> [arr |-> "horz", idx |-> old[1] + old[2] * w]
      [] d = "Left"  -> [arr |-> "vert", idx |-> new[1] + new[2] * (w - 1)]
      [] d = "Right" -> [arr |-> "vert", idx |-> old[1] + old[2] * (w - 1)]

\* OpenedWall with the Left arm indexing by old_origin (line 96 written as
\* line 99): from the last column the index is one wall too far.
OpenedWall_LeftOld(d, old, new, w) ==
    CASE d = "Up"    -> [arr |-> "horz", idx |-> new[1] + new[2] * w]
      [] d = "Down"  -> [arr |-> "horz", idx |-> old[1] + old[2] * w]
      [] d = "Left"  -> [arr |-> "vert", idx |-> old[1] + old[2] * (w - 1)]
      [] d = "Right" -> [arr |-> "vert", idx |-> old[1] + old[2] * (w - 1)]

\* The wall opened for the move (lines 88-101): which Vec, and the index.
OpenedWall(d, old, new, w) ==
    CASE d = "Up"    -> [arr |-> "horz", idx |-> new[1] + new[2] * w]
      [] d = "Down"  -> [arr |-> "horz", idx |-> old[1] + old[2] * w]
      [] d = "Left"  -> [arr |-> "vert", idx |-> new[1] + new[2] * (w - 1)]
      [] d = "Right" -> [arr |-> "vert", idx |-> old[1] + old[2] * (w - 1)]

\* ClosedWall with the Up arm closing the wall below the new root instead of
\* the one above it (the y - 1 of line 109 dropped).
ClosedWall_UpBelow(d, other_dir, new, w) ==
    CASE other_dir = "Up" ->
            IF d = "Down" THEN [arr |-> "none", idx |-> 0]
            ELSE [arr |-> "horz", idx |-> new[1] + new[2] * w]
      [] other_dir = "Down" ->
            IF d = "Up" THEN [arr |-> "none", idx |-> 0]
            ELSE [arr |-> "horz", idx |-> new[1] + new[2] * w]
      [] other_dir = "Left" ->
            IF d = "Right" THEN [arr |-> "none", idx |-> 0]
            ELSE [arr |-> "vert",
                  idx |-> IF new[1] = 0 THEN Underflow
                          ELSE (new[1] - 1) + new[2] * (w - 1)]
      [] other_dir = "Right" ->
            IF d = "Left" THEN [arr |-> "none", idx |-> 0]
            ELSE [arr |-> "vert", idx |-> new[1] + new[2] * (w - 1)]

\* ClosedWall without the four retrace arms: the new root's parent edge is
\* closed even when it is the edge just opened.
ClosedWall_NoRetrace(d, other_dir, new, w) ==
    CASE other_dir = "Up" ->
            [arr |-> "horz",
             idx |-> IF new[2] = 0 THEN Underflow
                     ELSE new[1] + (new[2] - 1) * w]
      [] other_dir = "Down" ->
            [arr |-> "horz", idx |-> new[1] + new[2] * w]
      [] other_dir = "Left" ->
            [arr |-> "vert",
             idx |-> IF new[1] = 0 THEN Underflow
                     ELSE (new[1] - 1) + new[2] * (w - 1)]
      [] other_dir = "Right" ->
            [arr |-> "vert", idx |-> new[1] + new[2] * (w - 1)]

\* The wall closed at the new root (lines 106-124), "none" when the move
\* retraces the new root's parent edge.
ClosedWall(d, other_dir, new, w) ==
    CASE other_dir = "Up" ->
            IF d = "Down" THEN [arr |-> "none", idx |-> 0]
            ELSE [arr |-> "horz",
                  idx |-> IF new[2] = 0 THEN Underflow
                          ELSE new[1] + (new[2] - 1) * w]
      [] other_dir = "Down" ->
            IF d = "Up" THEN [arr |-> "none", idx |-> 0]
            ELSE [arr |-> "horz", idx |-> new[1] + new[2] * w]
      [] other_dir = "Left" ->
            IF d = "Right" THEN [arr |-> "none", idx |-> 0]
            ELSE [arr |-> "vert",
                  idx |-> IF new[1] = 0 THEN Underflow
                          ELSE (new[1] - 1) + new[2] * (w - 1)]
      [] other_dir = "Right" ->
            IF d = "Left" THEN [arr |-> "none", idx |-> 0]
            ELSE [arr |-> "vert", idx |-> new[1] + new[2] * (w - 1)]

\* v[idx] = b, for an index inside the Vec.
SetWall(v, idx, b) == [v EXCEPT ![idx] = b]

\* SetTiles without line 126: the old root keeps None.
SetTiles_OldRootKept(t, old_idx, new_idx, d) ==
    [t EXCEPT ![new_idx] = None]

\* SetTiles without line 127: the new root keeps its parent pointer.
SetTiles_NewRootKept(t, old_idx, new_idx, d) ==
    [t EXCEPT ![old_idx] = d]

\* Lines 126-127: the old root points along the move, the new root is None.
SetTiles(t, old_idx, new_idx, d) ==
    [[t EXCEPT ![old_idx] = d] EXCEPT ![new_idx] = None]

\* Lines 84-129 for an accepted draw d, on the maze m.  The result carries
\* the fields as they are when the function returns or panics (an
\* out-of-bounds index or the unwrap of a None tile panics with the earlier
\* writes already done).
StepOn(m, d) ==
    LET old_origin == m.origin
        new_origin == NewOrigin(m.origin, d, m.width, m.height)
        opened == OpenedWall(d, old_origin, new_origin, m.width)
        open_ok == IF opened.arr = "horz" THEN opened.idx \in DOMAIN m.horz_walls
                   ELSE opened.idx \in DOMAIN m.vert_walls
        horz1 == IF opened.arr = "horz" /\ open_ok
                    THEN SetWall(m.horz_walls, opened.idx, FALSE) ELSE m.horz_walls
        vert1 == IF opened.arr = "vert" /\ open_ok
                    THEN SetWall(m.vert_walls, opened.idx, FALSE) ELSE m.vert_walls
        new_idx == new_origin[1] + new_origin[2] * m.width
        old_idx == old_origin[1] + old_origin[2] * m.width
        read_ok == new_idx \in DOMAIN m.tiles /\ m.tiles[new_idx] # None
        other_dir == m.tiles[new_idx]
        closed == ClosedWall(d, other_dir, new_origin, m.width)
        close_ok == CASE closed.arr = "none" -> TRUE
                      [] closed.arr = "horz" -> closed.idx \in DOMAIN horz1
                      [] closed.arr = "vert" -> closed.idx \in DOMAIN vert1
        horz2 == IF closed.arr = "horz"
                    THEN SetWall(horz1, closed.idx, TRUE) ELSE horz1
        vert2 == IF closed.arr = "vert"
                    THEN SetWall(vert1, closed.idx, TRUE) ELSE vert1
        write_ok == old_idx \in DOMAIN m.tiles
    IN  IF ~open_ok THEN
            [panic |-> TRUE, origin |-> m.origin, tiles |-> m.tiles,
             horz_walls |-> m.horz_walls, vert_walls |-> m.vert_walls]
        ELSE IF ~read_ok \/ ~close_ok THEN
            [panic |-> TRUE, origin |-> m.origin, tiles |-> m.tiles,
             horz_walls |-> horz1, vert_walls |-> vert1]
        ELSE IF ~write_ok THEN
            [panic |-> TRUE, origin |-> m.origin, tiles |-> m.tiles,
             horz_walls |-> horz2, vert_walls |-> vert2]
        ELSE
            [panic |-> FALSE, origin |-> new_origin,
             tiles |-> SetTiles(m.tiles, old_idx, new_idx, d),
             horz_walls |-> horz2, vert_walls |-> vert2]

\* The Maze value held by the program (the struct of lines 26-33).
Self ==
    [width |-> width, height |-> height, origin |-> origin, tiles |-> tiles,
     horz_walls |-> horz_walls, vert_walls |-> vert_walls]

\* Lines 84-129 for an accepted draw d, on self.
StepBody(d) == StepOn(Self, d)

\* main (or a test) calls maze.step(rng).
StepCall ==
    /\ pc = "idle"
    /\ pc' = "sampling"
    /\ caller' = "main"
    /\ direction' = "unset"
    /\ rendered' = NoText
    /\ UNCHANGED <<maze, i, moves>>

\* One pass of the loop of lines 66-82 whose draw points outside the grid:
\* new_origin is None and the loop goes round again.
DrawRejected(d) ==
    /\ pc = "sampling"
    /\ NewOrigin(origin, d, width, height) = None
    /\ direction' = d
    /\ UNCHANGED <<maze, pc, caller, i, moves, rendered>>

\* The pass whose draw is accepted, together with the rest of step.
DrawAccepted(d) ==
    /\ pc = "sampling"
    /\ NewOrigin(origin, d, width, height) # None
    /\ LET r == StepBody(d)
       IN  /\ origin' = r.origin
           /\ tiles' = r.tiles
           /\ horz_walls' = r.horz_walls
           /\ vert_walls' = r.vert_walls
           /\ IF r.panic
                 THEN /\ pc' = "panicked"
                      /\ direction' = d
                      /\ UNCHANGED <<caller, i, moves>>
                 ELSE /\ direction' = "unset"
                      /\ IF caller = "init"
                            THEN /\ pc' = "init_loop"
                                 /\ i' = i + 1
                                 /\ moves' = moves + 1
                            ELSE /\ pc' = "idle"
                                 /\ UNCHANGED <<i, moves>>
                      /\ UNCHANGED caller
    /\ UNCHANGED <<width, height, rendered>>

Draw(d) == DrawRejected(d) \/ DrawAccepted(d)

\* ------------------------------------------------------------ Maze::init
\* InitIterations with an inclusive range (0..=n): one step too many.
InitIterations_Inclusive(w, h) == w * h * 10 + 1

\* The bound of the for loop, computed in u64.
InitIterations(w, h) == w * h * 10

InitCall ==
    /\ pc = "idle"
    /\ width * height <= MaxInitCells
    /\ pc' = "init_loop"
    /\ i' = 0
    /\ moves' = 0
    /\ rendered' = NoText
    /\ UNCHANGED <<maze, caller, direction>>

\* The loop has iterations left: call self.step(rng).
InitStep ==
    /\ pc = "init_loop"
    /\ i < InitIterations(width, height)
    /\ pc' = "sampling"
    /\ caller' = "init"
    /\ direction' = "unset"
    /\ UNCHANGED <<maze, i, moves, rendered>>

\* The range is exhausted: init is at its closing brace.
InitExit ==
    /\ pc = "init_loop"
    /\ ~(i < InitIterations(width, height))
    /\ pc' = "init_done"
    /\ UNCHANGED <<maze, caller, direction, i, moves, rendered>>

\* init returns to main.
InitReturn ==
    /\ pc = "init_done"
    /\ pc' = "idle"
    /\ caller' = "main"
    /\ i' = 0
    /\ moves' = 0
    /\ UNCHANGED <<maze, direction, rendered>>

\* ---------------------------------------------------------- Maze::to_str
\* A String is the sequence of its characters.  A Vec read out of bounds
\* panics; Panic marks the character that read would have produced.
Panic == "PANIC"

\* The glyph of a parent pointer (lines 150-156).
TileGlyph(t) ==
    CASE t = "Up" -> "^" [] t = "Down" -> "v" [] t = "Left" -> "<"
      [] t = "Right" -> ">" [] t = None -> "X"

\* Glyph with the polarity of the horizontal flag inverted: a closed wall is
\* drawn as a space.
Glyph_HorzInverted(x, y, dirs) ==
    LET xe == x % 2 = 0
        ye == y % 2 = 0
        xx == x \div 2
        yy == y \div 2
    IN  CASE ~xe /\ ~ye ->
                IF dirs
                   THEN IF xx + yy * width \in DOMAIN tiles
                           THEN TileGlyph(tiles[xx + yy * width]) ELSE Panic
                   ELSE " "
          [] xe /\ ye -> "+"
          [] ~xe /\ ye ->
                IF yy = 0 \/ yy = height THEN "-"
                ELSE IF xx + (yy - 1) * width \in DOMAIN horz_walls
                        THEN (IF horz_walls[xx + (yy - 1) * width] THEN " " ELSE "-")
                        ELSE Panic
          [] xe /\ ~ye ->
                IF xx = 0 \/ xx = width THEN "|"
                ELSE IF (xx - 1) + yy * (width - 1) \in DOMAIN vert_walls
                        THEN (IF vert_walls[(xx - 1) + yy * (width - 1)] THEN "|" ELSE " ")
                        ELSE Panic

\* The character appended at column x of line y (the match of lines
\* 147-178).
Glyph(x, y, dirs) ==
    LET xe == x % 2 = 0
        ye == y % 2 = 0
        xx == x \div 2
        yy == y \div 2
    IN  CASE ~xe /\ ~ye ->
                IF dirs
                   THEN IF xx + yy * width \in DOMAIN tiles
                           THEN TileGlyph(tiles[xx + yy * width]) ELSE Panic
                   ELSE " "
          [] xe /\ ye -> "+"
          [] ~xe /\ ye ->
                IF yy = 0 \/ yy = height THEN "-"
                ELSE IF xx + (yy - 1) * width \in DOMAIN horz_walls
                        THEN (IF horz_walls[xx + (yy - 1) * width] THEN "-" ELSE " ")
                        ELSE Panic
          [] xe /\ ~ye ->
                IF xx = 0 \/ xx = width THEN "|"
                ELSE IF (xx - 1) + yy * (width - 1) \in DOMAIN vert_walls
                        THEN (IF vert_walls[(xx - 1) + yy * (width - 1)] THEN "|" ELSE " ")
                        ELSE Panic

\* Characters appended per pass of the outer loop: 2*width + 1 glyphs and the
\* "\n" of line 181.
LineLen == 2 * width + 2

\* The String built by the two loops of lines 141-182, in the order in which
\* the characters are appended.
ToStr(dirs) ==
    [p \in 1..((2 * height + 1) * LineLen) |->
        LET y == (p - 1) \div LineLen
            x == (p - 1) % LineLen
        IN  IF x = 2 * width + 1 THEN "\n" ELSE Glyph(x, y, dirs)]

\* Some read of to_str is out of bounds.
ToStrPanics(dirs) == \E p \in DOMAIN ToStr(dirs) : ToStr(dirs)[p] = Panic

\* main (or a test) calls maze.to_str(dirs) on the maze it owns.
ToStrCall(dirs) ==
    /\ pc = "idle"
    /\ IF ToStrPanics(dirs)
          THEN pc' = "panicked" /\ rendered' = NoText
          ELSE pc' = pc /\ rendered' = [dirs |-> dirs, text |-> ToStr(dirs)]
    /\ UNCHANGED <<maze, caller, direction, i, moves>>

\* ------------------------------------------------------------ the program
Init ==
    /\ pc = "start"
    /\ width = 0
    /\ height = 0
    /\ origin = <<0, 0>>
    /\ tiles = VecOf(0, None)
    /\ horz_walls = VecOf(0, TRUE)
    /\ vert_walls = VecOf(0, FALSE)
    /\ caller = "main"
    /\ direction = "unset"
    /\ i = 0
    /\ moves = 0
    /\ rendered = NoText

NewAny ==
    \E w \in 0..MaxWidth, h \in 0..MaxHeight : w * h <= MaxCells /\ New(w, h)

DrawRejectedAny == \E d \in Dir : DrawRejected(d)

DrawAcceptedAny == \E d \in Dir : DrawAccepted(d)

ToStrAny == \E dirs \in BOOLEAN : ToStrCall(dirs)

Next ==
    \/ NewAny
    \/ StepCall
    \/ DrawRejectedAny
    \/ DrawAcceptedAny
    \/ InitCall
    \/ InitStep
    \/ InitExit
    \/ InitReturn
    \/ ToStrAny

Spec == Init /\ [][Next]_vars

\* The random source is fair: a direction that the loop keeps waiting for is
\* eventually drawn.
FairSpec == Spec /\ \A d \in Dir : WF_vars(Draw(d))

\* ------------------------------------------------- reading the maze state
\* A maze exists: Maze::new returned the comb and no call has panicked.
Constructed == pc \in {"idle", "sampling", "init_loop", "init_done"}

\* The cells of the grid.
Cells == {c \in (0..(width - 1)) \X (0..(height - 1)) : TRUE}

\* The parent pointer of cell c: tiles[x + y*width].
TileAt(c) == tiles[c[1] + c[2] * width]

\* The cell one unit from c in direction d.
Towards(c, d) ==
    CASE d = "Up"    -> <<c[1], c[2] - 1>>
      [] d = "Down"  -> <<c[1], c[2] + 1>>
      [] d = "Left"  -> <<c[1] - 1, c[2]>>
      [] d = "Right" -> <<c[1] + 1, c[2]>>

\* The flag of the wall between (x, y) and (x, y+1), and between (x, y) and
\* (x+1, y).
HorzWallAt(x, y) == horz_walls[x + y * width]
VertWallAt(x, y) == vert_walls[x + y * (width - 1)]

\* Following parent pointers from c reaches the root within n hops, never
\* leaving the grid.
RECURSIVE ReachesRoot(_, _)
ReachesRoot(c, n) ==
    IF c \notin Cells THEN FALSE
    ELSE IF TileAt(c) = None THEN c = origin
    ELSE IF n = 0 THEN FALSE
    ELSE ReachesRoot(Towards(c, TileAt(c)), n - 1)

\* Number of false entries of a wall Vec.
OpenCount(v) == Cardinality({k \in DOMAIN v : ~v[k]})

\* ------------------------------------------------------------------ claims
\* C1: in every state reachable from Maze::new (at least 2 cells) by step
\* calls, following parent pointers from any cell reaches the root cell in
\* at most width*height - 1 hops, without leaving the grid; a walk that
\* revisited a cell would never arrive, so the pointers form a spanning tree.
C1_SpanningTree ==
    (Constructed /\ width * height >= 2) =>
        \A c \in Cells : ReachesRoot(c, width * height - 1)

\* A 3x3 maze whose root sits in the far corner and whose first cell has
\* been re-pointed Down, away from the comb.
C1_Witness ==
    /\ pc = "idle" /\ width = 3 /\ height = 3
    /\ origin = <<2, 2>>
    /\ TileAt(<<0, 0>>) = "Down"
    /\ ReachesRoot(<<0, 0>>, 8) /\ ~ReachesRoot(<<0, 0>>, 3)

\* C2: the wall flag between two adjacent cells is false exactly when one of
\* the two cells points at the other, and the wall Vecs hold no other flag.
C2_WallsMatchTree ==
    Constructed =>
        /\ DOMAIN horz_walls = 0..(width * (height - 1) - 1)
        /\ DOMAIN vert_walls = 0..((width - 1) * height - 1)
        /\ \A x \in 0..(width - 1), y \in 0..(height - 2) :
              (HorzWallAt(x, y) = FALSE) <=>
                 (TileAt(<<x, y>>) = "Down" \/ TileAt(<<x, y + 1>>) = "Up")
        /\ \A x \in 0..(width - 2), y \in 0..(height - 1) :
              (VertWallAt(x, y) = FALSE) <=>
                 (TileAt(<<x, y>>) = "Right" \/ TileAt(<<x + 1, y>>) = "Left")

\* A maze away from the comb: a horizontal wall outside column 0 is open
\* through a Down pointer and a vertical wall has been closed.
C2_Witness ==
    /\ Constructed /\ width >= 2 /\ height >= 2
    /\ \E x \in 1..(width - 1), y \in 0..(height - 2) :
          HorzWallAt(x, y) = FALSE /\ TileAt(<<x, y>>) = "Down"
    /\ \E x \in 0..(width - 2), y \in 0..(height - 1) : VertWallAt(x, y) = TRUE

\* C3: exactly one cell holds None, and it is the cell stored in origin.
C3_SingleRoot ==
    Constructed =>
        /\ DOMAIN tiles = 0..(width * height - 1)
        /\ origin \in Cells
        /\ {c \in Cells : TileAt(c) = None} = {origin}

\* The root has moved away from (0,0), which now holds a direction.
C3_Witness ==
    /\ Constructed /\ origin # <<0, 0>>
    /\ TileAt(<<0, 0>>) \in Dir /\ TileAt(origin) = None

\* C4: open horizontal walls plus open vertical walls number
\* width*height - 1.
C4_OpenWallCount ==
    Constructed =>
        OpenCount(horz_walls) + OpenCount(vert_walls) = width * height - 1

\* A 3x3 maze, stepped, in which more horizontal walls than the two of the
\* comb are open.
C4_Witness ==
    /\ pc = "idle" /\ width = 3 /\ height = 3
    /\ OpenCount(horz_walls) = 5 /\ OpenCount(vert_walls) = 3

\* The comb of Maze::new: root (0,0); column 0 points Up, every other cell
\* points Left; every vertical wall open; horizontal walls open in column 0
\* only.
Comb ==
    /\ origin = <<0, 0>>
    /\ DOMAIN tiles = 0..(width * height - 1)
    /\ DOMAIN horz_walls = 0..(width * (height - 1) - 1)
    /\ DOMAIN vert_walls = 0..((width - 1) * height - 1)
    /\ \A c \in Cells :
          TileAt(c) = IF c[1] > 0 THEN "Left"
                      ELSE IF c[2] > 0 THEN "Up" ELSE None
    /\ \A x \in 0..(width - 2), y \in 0..(height - 1) : VertWallAt(x, y) = FALSE
    /\ \A x \in 0..(width - 1), y \in 0..(height - 2) : HorzWallAt(x, y) = (x # 0)

\* C5: for every width >= 1 and height >= 1, Maze::new(width, height)
\* returns, and what it returns is the comb.
C5_NewIsComb ==
    [][(pc = "start" /\ width' >= 1 /\ height' >= 1) => (pc' = "idle" /\ Comb')]_vars

\* The 3x3 comb, with its two open horizontal walls in column 0.
C5_Witness ==
    /\ pc = "idle" /\ width = 3 /\ height = 3 /\ Comb
    /\ HorzWallAt(0, 1) = FALSE /\ HorzWallAt(2, 1) = TRUE

\* The in-bounds 4-neighbours of cell c.
Neighbours(c) == {n \in Cells : \E d \in Dir : n = Towards(c, d)}

\* A step completes: the rejection loop exits and step returns.
StepCompletes == pc = "sampling" /\ pc' \in {"idle", "init_loop"}

\* C6: a completed step moves origin to an in-grid 4-neighbour of the
\* previous origin, and origin changes in no other way; while the loop is
\* sampling, every in-bounds 4-neighbour of origin is the outcome of some
\* draw.
C6_RootMovesToNeighbour ==
    /\ [][/\ StepCompletes => origin' \in Neighbours(origin)
          /\ (pc # "start" /\ origin' # origin) => StepCompletes]_vars
    /\ [](pc = "sampling" =>
            \A n \in Neighbours(origin) :
                ENABLED (DrawAcceptedAny /\ StepCompletes /\ origin' = n))

\* The loop is sampling at the centre of a 3x3 grid, where all four
\* neighbours are in bounds.
C6_Witness ==
    /\ pc = "sampling" /\ width = 3 /\ height = 3 /\ origin = <<1, 1>>
    /\ Cardinality(Neighbours(origin)) = 4

\* step is in its rejection loop, on a grid of at least 2 cells / of 1 cell.
SamplingOnGrid == pc = "sampling" /\ width * height >= 2
SamplingOneCell == pc = "sampling" /\ width * height = 1

\* step has returned to its caller; or has returned or failed with the
\* DegenerateGrid error.
StepReturned == pc \in {"idle", "init_loop"}
StepReturnedOrFailed == pc \in {"idle", "init_loop", "degenerate_grid"}

\* C7: on a grid of at least 2 cells, under a fair random source, a step
\* that has entered the rejection loop completes.
C7_StepTerminates == SamplingOnGrid ~> StepReturned

\* The loop has rejected a draw on a 1x3 grid, whose vert_walls is empty.
C7_Witness ==
    /\ pc = "sampling" /\ width = 1 /\ height = 3
    /\ direction = "Right" /\ vert_walls = VecOf(0, FALSE)

\* C8: step on a 1x1 grid terminates, as a no-op or with a DegenerateGrid
\* error; it does not retry forever.
C8_OneCellStepTerminates == SamplingOneCell ~> StepReturnedOrFailed

\* C9: Maze::new with width = 0 or height = 0 ends in an InvalidDimension
\* error and no maze.
C9_InvalidDimension ==
    (pc # "start" /\ (width = 0 \/ height = 0)) => pc = "invalid_dimension"

\* Control is inside Maze::init.
InInit ==
    \/ pc \in {"init_loop", "init_done"}
    \/ pc = "sampling" /\ caller = "init"

\* C10: when init reaches its end it has completed exactly width*height*10
\* steps, each of them a root move; from its call to its return the maze
\* changes in those steps only.
C10_InitStepCount ==
    /\ [](pc = "init_done" =>
            /\ width * height >= 2
            /\ moves = width * height * 10
            /\ i = width * height * 10)
    /\ [][(InInit \/ InInit') =>
            /\ (maze' # maze) <=> (moves' = moves + 1)
            /\ (maze' # maze) => (StepCompletes /\ origin' # origin)]_vars

\* init on a 2x2 grid is at its end after 40 root moves, the tree no longer
\* the comb.
C10_Witness ==
    /\ pc = "init_done" /\ width = 2 /\ height = 2
    /\ moves = 40 /\ ~Comb

\* ------------------------------------------------ one step, before / after
\* The direction opposite to d.
Opposite(d) ==
    CASE d = "Up" -> "Down" [] d = "Down" -> "Up"
      [] d = "Left" -> "Right" [] d = "Right" -> "Left"

\* The wall between cell c and its neighbour in direction d, as the Vec it
\* lives in and its index there.
EdgeWall(c, d) ==
    CASE d = "Up"    -> <<"horz", c[1] + (c[2] - 1) * width>>
      [] d = "Down"  -> <<"horz", c[1] + c[2] * width>>
      [] d = "Left"  -> <<"vert", (c[1] - 1) + c[2] * (width - 1)>>
      [] d = "Right" -> <<"vert", c[1] + c[2] * (width - 1)>>

\* Every wall flag the maze holds.
Walls ==
    {<<"horz", k>> : k \in DOMAIN horz_walls} \cup
    {<<"vert", k>> : k \in DOMAIN vert_walls}

\* The flag of wall e before and after the step.
FlagOf(e) == IF e[1] = "horz" THEN horz_walls[e[2]] ELSE vert_walls[e[2]]
FlagAfter(e) == IF e[1] = "horz" THEN horz_walls'[e[2]] ELSE vert_walls'[e[2]]

\* The walls a step opens and the walls it closes.
OpenedBy == {e \in Walls : FlagOf(e) /\ ~FlagAfter(e)}
ClosedBy == {e \in Walls : ~FlagOf(e) /\ FlagAfter(e)}

\* The vertical walls that touch cell c.
AdjacentVert(c) ==
    {EdgeWall(c, d) : d \in {e \in {"Left", "Right"} : Towards(c, e) \in Cells}}

\* A completed step that moves the root in direction d.
StepMoves(d) == StepCompletes /\ origin' = Towards(origin, d)

\* A completed step onto a cell whose parent pointer is the opposite of the
\* move.
Retraces ==
    \E d \in Dir : StepMoves(d) /\ TileAt(Towards(origin, d)) = Opposite(d)

\* The step from the root (0,0) of the 3x3 comb Down to (0,1).
CombDownStep ==
    /\ width = 3 /\ height = 3 /\ Comb
    /\ origin = <<0, 0>> /\ StepMoves("Down")

\* C12 as claimed: on the 3x3 comb the step Down from (0,0) to (0,1) closes
\* a vertical wall adjacent to (0,1) that was open before it.
C12_CombDownClosesVertical ==
    [][CombDownStep =>
          \E e \in AdjacentVert(<<0, 1>>) : ~FlagOf(e) /\ FlagAfter(e)]_vars

\* C12 amended: (0,1)'s parent pointer in the comb is Up, to (0,0), so that
\* step retraces its parent edge: no wall flag changes and the vertical wall
\* adjacent to (0,1) stays open.
C12_CombDownRetraces ==
    [][CombDownStep =>
          /\ TileAt(<<0, 1>>) = "Up"
          /\ UNCHANGED <<horz_walls, vert_walls>>
          /\ \A e \in AdjacentVert(<<0, 1>>) : ~FlagAfter(e)]_vars

\* The 3x3 maze one step Down from the comb: root (0,1), (0,0) pointing Down,
\* the walls those of the comb.
C12_Witness ==
    /\ pc = "idle" /\ width = 3 /\ height = 3
    /\ origin = <<0, 1>> /\ TileAt(<<0, 0>>) = "Down"
    /\ horz_walls = NewHorzWalls(3, 3) /\ vert_walls = NewVertWalls(3, 3)
    /\ \A c \in Cells \ {<<0, 0>>, <<0, 1>>} : TileAt(c) = NewTiles(3, 3)[c[1] + c[2] * 3]

\* C13: a step that retraces a tree edge changes no wall flag; only the two
\* parent pointers and the stored root change.
C13_RetraceKeepsWalls ==
    [][Retraces =>
          /\ UNCHANGED <<horz_walls, vert_walls, width, height>>
          /\ origin' # origin
          /\ DOMAIN tiles' = DOMAIN tiles
          /\ \A c \in Cells \ {origin, origin'} :
                tiles'[c[1] + c[2] * width] = TileAt(c)]_vars

\* The fresh 2x2 maze after the step Right to (1,0), which retraced (1,0)'s
\* Left pointer: the walls are still those of the comb.
C13_Witness ==
    /\ pc = "idle" /\ width = 2 /\ height = 2
    /\ origin = <<1, 0>> /\ TileAt(<<0, 0>>) = "Right"
    /\ horz_walls = NewHorzWalls(2, 2) /\ vert_walls = NewVertWalls(2, 2)

\* C15: a step from oldRoot to newRoot in direction d sets oldRoot's pointer
\* to d and newRoot's pointer to None, and leaves every other pointer as it
\* was.
C15_PointerUpdate ==
    [][StepCompletes =>
          \E d \in Dir :
             /\ origin' = Towards(origin, d)
             /\ DOMAIN tiles' = DOMAIN tiles
             /\ tiles'[origin[1] + origin[2] * width] = d
             /\ tiles'[origin'[1] + origin'[2] * width] = None
             /\ \A c \in Cells \ {origin, origin'} :
                   tiles'[c[1] + c[2] * width] = TileAt(c)]_vars

\* The root has just moved Down from (1,0) into the centre of a 3x3 grid.
C15_Witness ==
    /\ pc = "idle" /\ width = 3 /\ height = 3
    /\ origin = <<1, 1>> /\ TileAt(<<1, 0>>) = "Down" /\ TileAt(<<1, 1>>) = None

\* C16: after a step in direction d the wall between the old and the new
\* root is open; if the new root's previous parent was another cell, the
\* wall to that parent is closed; no other flag changes; the step opens at
\* most one wall, closes at most one, and opens one exactly when it closes
\* one.
C16_WallUpdate ==
    [][\A d \in Dir : StepMoves(d) =>
          LET p == TileAt(origin')
              crossed == EdgeWall(origin, d)
              stale == EdgeWall(origin', p)
          IN  /\ DOMAIN horz_walls' = DOMAIN horz_walls
              /\ DOMAIN vert_walls' = DOMAIN vert_walls
              /\ crossed \in Walls /\ ~FlagAfter(crossed)
              /\ (p # Opposite(d)) => (stale \in Walls /\ FlagAfter(stale))
              /\ \A e \in Walls \ {crossed, stale} : FlagAfter(e) = FlagOf(e)
              /\ Cardinality(OpenedBy) <= 1
              /\ Cardinality(ClosedBy) <= 1
              /\ Cardinality(OpenedBy) = Cardinality(ClosedBy)]_vars

\* A 2x2 maze after Right then Down: the second step opened the wall between
\* (1,0) and (1,1) and closed the one between (0,1) and (1,1).
C16_Witness ==
    /\ pc = "idle" /\ width = 2 /\ height = 2 /\ origin = <<1, 1>>
    /\ HorzWallAt(1, 0) = FALSE /\ VertWallAt(0, 1) = TRUE
    /\ TileAt(<<0, 1>>) = "Up" /\ TileAt(<<1, 0>>) = "Down"

\* The directions whose draw is accepted at the current root.
ValidDirs == {d \in Dir : NewOrigin(origin, d, width, height) # None}

\* C17 as claimed: on every grid of at least 2 cells, at least 2 of the 4
\* directions point to an in-bounds neighbour of the root.
C17_TwoValidDirs ==
    (Constructed /\ width * height >= 2) => Cardinality(ValidDirs) >= 2

\* C17 amended: at least 2 of the 4 directions are in bounds when width >= 2
\* and height >= 2; on a grid one cell wide or high (and at least 2 cells)
\* at least 1 is.
C17_ValidDirs ==
    (Constructed /\ width * height >= 2) =>
        /\ Cardinality(ValidDirs) >= 1
        /\ (width >= 2 /\ height >= 2) => Cardinality(ValidDirs) >= 2

\* The root in the far corner of a 3x3 grid, where exactly Up and Left are
\* in bounds.
C17_Witness ==
    /\ Constructed /\ width = 3 /\ height = 3 /\ origin = <<2, 2>>
    /\ ValidDirs = {"Up", "Left"}

\* C18: on a grid of at least 2 cells no step panics: from every state in the
\* rejection loop every accepted draw runs the rest of step without an
\* out-of-bounds index, an underflow or an unwrap of None, and no reachable
\* state is a panic.
C18_NoPanic ==
    (width >= 1 /\ height >= 1) =>
        /\ pc # "panicked"
        /\ (pc = "sampling" /\ width * height >= 2) =>
              \A d \in ValidDirs : ~StepBody(d).panic

\* A 1x3 maze, whose vert_walls is empty, stepped down to its last cell.
C18_Witness ==
    /\ pc = "idle" /\ width = 1 /\ height = 3 /\ origin = <<0, 2>>
    /\ DOMAIN vert_walls = {} /\ TileAt(<<0, 0>>) = "Down"

\* The character at column x of line y of the String held.
CharAt(x, y) == rendered.text[y * LineLen + x + 1]

\* C14: to_str(false) returns 2*height + 1 lines of exactly 2*width + 1
\* characters; every corner is '+', every outer-border segment is drawn, an
\* interior segment is a space exactly when the wall flag between its two
\* cells is false and the wall glyph otherwise; the call does not panic and
\* leaves the maze as it was.
C14_RenderMatchesWalls ==
    /\ [](pc = "idle" => ~ToStrPanics(FALSE))
    /\ []((pc = "idle" /\ rendered # NoText /\ ~rendered.dirs) =>
            /\ Len(rendered.text) = (2 * height + 1) * (2 * width + 2)
            /\ \A y \in 0..(2 * height) :
                  /\ CharAt(2 * width + 1, y) = "\n"
                  /\ \A x \in 0..(2 * width) : CharAt(x, y) # "\n"
            /\ \A cx \in 0..width, cy \in 0..height : CharAt(2 * cx, 2 * cy) = "+"
            /\ \A cx \in 0..(width - 1) :
                  CharAt(2 * cx + 1, 0) = "-" /\ CharAt(2 * cx + 1, 2 * height) = "-"
            /\ \A cy \in 0..(height - 1) :
                  CharAt(0, 2 * cy + 1) = "|" /\ CharAt(2 * width, 2 * cy + 1) = "|"
            /\ \A cx \in 0..(width - 1), cy \in 0..(height - 2) :
                  CharAt(2 * cx + 1, 2 * cy + 2) =
                     IF HorzWallAt(cx, cy) THEN "-" ELSE " "
            /\ \A cx \in 0..(width - 2), cy \in 0..(height - 1) :
                  CharAt(2 * cx + 2, 2 * cy + 1) =
                     IF VertWallAt(cx, cy) THEN "|" ELSE " ")
    /\ [][rendered' # rendered /\ rendered' # NoText => UNCHANGED maze]_vars

\* to_str(false) has rendered a 3x3 maze away from the comb: a closed
\* vertical wall and an open horizontal wall outside column 0 are drawn.
C14_Witness ==
    /\ pc = "idle" /\ rendered # NoText /\ ~rendered.dirs
    /\ width = 3 /\ height = 3
    /\ VertWallAt(1, 1) = TRUE /\ CharAt(4, 3) = "|"
    /\ HorzWallAt(2, 0) = FALSE /\ CharAt(5, 2) = " "

\* ------------------------------------------------- the mazes step can reach
\* The mazes one completed step away from maze m, one per accepted draw.
Successors(m) ==
    {[width |-> m.width, height |-> m.height, origin |-> r.origin,
      tiles |-> r.tiles, horz_walls |-> r.horz_walls,
      vert_walls |-> r.vert_walls] :
        r \in {q \in {StepOn(m, d) :
                        d \in {e \in Dir :
                                 NewOrigin(m.origin, e, m.width, m.height) # None}} :
                 ~q.panic}}

\* The mazes reachable by completed steps: seen so far, and the ones found
\* last.
RECURSIVE ReachFrom(_, _)
ReachFrom(seen, frontier) ==
    IF frontier = {} THEN seen
    ELSE LET found == UNION {Successors(m) : m \in frontier} \ seen
         IN  ReachFrom(seen \cup found, found)

\* In the pointer array t of a w x h grid, following pointers from cell
\* index k reaches the cell holding None within n hops, inside the grid.
RECURSIVE TreeReaches(_, _, _, _, _)
TreeReaches(t, w, h, k, n) ==
    LET x == k % w
        y == k \div w
    IN  CASE t[k] = None -> TRUE
          [] n = 0 -> FALSE
          [] t[k] = "Up" -> y > 0 /\ TreeReaches(t, w, h, k - w, n - 1)
          [] t[k] = "Down" -> y < h - 1 /\ TreeReaches(t, w, h, k + w, n - 1)
          [] t[k] = "Left" -> x > 0 /\ TreeReaches(t, w, h, k - 1, n - 1)
          [] t[k] = "Right" -> x < w - 1 /\ TreeReaches(t, w, h, k + 1, n - 1)

\* The maze whose pointers are t: the root is the cell holding None and a
\* wall is open exactly when one of its two cells points at the other.
MazeOfTree(t, w, h) ==
    LET r == CHOOSE k \in DOMAIN t : t[k] = None
    IN  [width |-> w, height |-> h, origin |-> <<r % w, r \div w>>, tiles |-> t,
         horz_walls |-> [k \in 0..(w * (h - 1) - 1) |->
                            ~(t[k] = "Down" \/ t[k + w] = "Up")],
         vert_walls |-> [k \in 0..((w - 1) * h - 1) |->
                            LET x == k % (w - 1)
                                y == k \div (w - 1)
                            IN  ~(t[x + y * w] = "Right" \/ t[x + 1 + y * w] = "Left")]]

\* Every rooted spanning tree of the w x h grid, as a maze.
RootedSpanningTrees(w, h) ==
    {MazeOfTree(t, w, h) :
        t \in {u \in [0..(w * h - 1) -> Dir \cup {None}] :
                 /\ Cardinality({k \in DOMAIN u : u[k] = None}) = 1
                 /\ \A k \in DOMAIN u : TreeReaches(u, w, h, k, w * h - 1)}}

\* C19: from the comb returned by Maze::new, every rooted spanning tree of
\* the grid (every root, every spanning tree, walls matching) is reached by
\* some finite sequence of completed steps.
C19_AllTreesReachable ==
    (pc = "idle" /\ Comb /\ rendered = NoText) =>
        RootedSpanningTrees(width, height) \subseteq ReachFrom({Self}, {Self})

\* A 3x2 maze in the mirror image of the comb: root in the far corner, the
\* last column pointing Down, every other cell pointing Right.
C19_Witness ==
    /\ pc = "idle" /\ width = 3 /\ height = 2 /\ origin = <<2, 1>>
    /\ \A c \in Cells \ {origin} :
          TileAt(c) = IF c[1] = 2 THEN "Down" ELSE "Right"
    /\ Self \in RootedSpanningTrees(3, 2)

====
